---------------------------- MODULE Spec2Model ----------------------------
(***************************************************************************)
(* Model of src/named_pixel_mapper.rs (rpi_led_panel): the pixel-mapper    *)
(* selector (NamedPixelMapperType::from_str / create) and the three        *)
(* mappers (MirrorPixelMapper, RotatePixelMapper, UArrangeMapper).         *)
(*                                                                         *)
(* A session is: from_str(token) -> create(chain, parallel) ->             *)
(* get_size_mapping(w, h) -> map_visible_to_matrix(w, h, x, y) ...         *)
(*                                                                         *)
(* Representation of usize.  TLC's integers are 32 bits wide, so a usize   *)
(* of 32 or 64 bits is not stored as a plain number where it can be large: *)
(*   - a number parsed from a token is a sequence of decimal digits        *)
(*     (most significant first), compared and reduced digit by digit;      *)
(*   - a coordinate is an integer n, and a wrapped result 2^bits + n of an *)
(*     unsigned subtraction that went below zero is the NEGATIVE integer   *)
(*     n (its residue modulo 2^bits); such a value is larger than every    *)
(*     matrix dimension of the model.                                      *)
(* Arithmetic overflow in Rust depends on the build: with overflow checks  *)
(* (the dev profile) it panics, without (the release profile) it wraps.    *)
(* Both builds are modelled; the variable overflow_checks says which.      *)
(***************************************************************************)
EXTENDS Integers, Sequences, FiniteSets, TLC

VARIABLES
    overflow_checks, \* build: TRUE = overflow panics, FALSE = overflow wraps
    usize_bits,      \* build: width of usize on the target (32 or 64)
    pc,              \* "start", "parsed", "rejected", "created", "sized", "panicked"
    desc,            \* the NamedPixelMapperType from_str returned
    mapper,          \* the Box<dyn NamedPixelMapper> create returned
    matrix,          \* <<matrix_width, matrix_height>> of the last get_size_mapping
    visible,         \* <<visible_width, visible_height>> it returned
    call             \* the last call: [op, arg, ret]

vars == <<overflow_checks, usize_bits, pc, desc, mapper, matrix, visible, call>>

(***************************************************************************)
(* Bounds of the model.                                                    *)
(***************************************************************************)
MaxSmallDim == 2     \* small matrix widths are 1..MaxSmallDim
MaxPanelPairs == 2   \* wide matrix widths are 64*k, k in 1..MaxPanelPairs
MaxHeight == 3       \* matrix heights are 1..MaxHeight
MaxChain == 5        \* create's chain is 0..MaxChain
MaxParallel == 3     \* create's parallel is 0..MaxParallel
MaxAngleSteps == 10  \* rotation tokens name 45*k degrees, k in 0..MaxAngleSteps

(***************************************************************************)
(* Results: Ok(v), Err(e) and a panic (the thread unwinds, no value).      *)
(***************************************************************************)
Ok(v) == [tag |-> "Ok", val |-> v]
Err(e) == [tag |-> "Err", val |-> e]
Panic(why) == [tag |-> "Panic", val |-> why]
NoResult == [tag |-> "None", val |-> "none"]

(***************************************************************************)
(* Decimal digit sequences (most significant digit first).                 *)
(***************************************************************************)
DigitChars == <<"0", "1", "2", "3", "4", "5", "6", "7", "8", "9">>

IsDigitChar(c) == \E d \in 1..10 : DigitChars[d] = c

DigitVal(c) == (CHOOSE d \in 1..10 : DigitChars[d] = c) - 1

RECURSIVE ToDigits(_)
ToDigits(n) == IF n < 10 THEN <<n>> ELSE ToDigits(n \div 10) \o <<n % 10>>

ToChars(n) == [i \in 1..Len(ToDigits(n)) |-> DigitChars[ToDigits(n)[i] + 1]]

RECURSIVE StripZeros(_)
StripZeros(ds) ==
    IF Len(ds) > 1 /\ ds[1] = 0 THEN StripZeros(Tail(ds)) ELSE ds

\* ds * k + c, for small k and c
RECURSIVE MulAdd(_, _, _)
MulAdd(ds, k, c) ==
    IF ds = <<>>
    THEN IF c = 0 THEN <<>> ELSE ToDigits(c)
    ELSE LET v == ds[Len(ds)] * k + c
         IN  MulAdd(SubSeq(ds, 1, Len(ds) - 1), k, v \div 10) \o <<v % 10>>

\* a <= b for digit sequences without leading zeros
RECURSIVE LexLeq(_, _)
LexLeq(a, b) ==
    IF a = <<>> THEN TRUE
    ELSE IF a[1] # b[1] THEN a[1] < b[1]
    ELSE LexLeq(Tail(a), Tail(b))

DigitsLeq(a, b) ==
    LET x == StripZeros(a)
        y == StripZeros(b)
    IN  IF Len(x) # Len(y) THEN Len(x) < Len(y) ELSE LexLeq(x, y)

\* ds mod m, for small m (Horner)
RECURSIVE ModDigits(_, _)
ModDigits(ds, m) ==
    IF ds = <<>> THEN 0
    ELSE (ModDigits(SubSeq(ds, 1, Len(ds) - 1), m) * 10 + ds[Len(ds)]) % m

RECURSIVE Pow2Digits(_)
Pow2Digits(b) ==
    IF b = 0 THEN <<1>>
    ELSE IF b >= 16 THEN MulAdd(Pow2Digits(b - 16), 65536, 0)
    ELSE MulAdd(Pow2Digits(b - 1), 2, 0)

\* usize::MAX = 2^bits - 1 (2^bits ends in 2, 4, 6 or 8)
UsizeMax(bits) ==
    LET p == Pow2Digits(bits) IN [p EXCEPT ![Len(p)] = @ - 1]

(***************************************************************************)
(* str::parse::<usize>(): an optional '+', then one or more decimal        *)
(* digits, read from left to right.  Err(Empty) on an empty string,        *)
(* Err(InvalidDigit) on a lone sign; then the first failure met decides:   *)
(* Err(PosOverflow) at the first digit with which the value exceeds        *)
(* usize::MAX, Err(InvalidDigit) at the first other character (a '-'       *)
(* included, usize being unsigned).  Ok holds the value's digits.          *)
(***************************************************************************)
parse_usize(bits, src) ==
    IF src = <<>> THEN Err("Empty")
    ELSE IF Len(src) = 1 /\ src[1] \in {"+", "-"} THEN Err("InvalidDigit")
    ELSE LET digits == IF src[1] = "+" THEN Tail(src) ELSE src
             \* the digits before the first character that is no digit
             stop == IF \E i \in 1..Len(digits) : ~IsDigitChar(digits[i])
                     THEN CHOOSE i \in 1..Len(digits) :
                              /\ ~IsDigitChar(digits[i])
                              /\ \A j \in 1..(i - 1) : IsDigitChar(digits[j])
                     ELSE Len(digits) + 1
             ds == StripZeros([i \in 1..(stop - 1) |-> DigitVal(digits[i])])
         IN  IF ~DigitsLeq(ds, UsizeMax(bits)) THEN Err("PosOverflow")
             ELSE IF stop <= Len(digits) THEN Err("InvalidDigit")
             ELSE Ok(ds)

(***************************************************************************)
(* The descriptors: enum NamedPixelMapperType.                             *)
(***************************************************************************)
Mirror(horizontal) == [type |-> "Mirror", horizontal |-> horizontal]
Rotate(angle) == [type |-> "Rotate", angle |-> angle]
UMapper == [type |-> "UMapper"]
NoDesc == [type |-> "None"]

MIRROR == <<"M", "i", "r", "r", "o", "r">>
ROTATE == <<"R", "o", "t", "a", "t", "e">>
UMAPPER == <<"U", "-", "m", "a", "p", "p", "e", "r">>

\* str::split_once(':'): the text before and after the first ':', or None
split_once(s) ==
    IF \E i \in 1..Len(s) : s[i] = ":"
    THEN LET i == CHOOSE i \in 1..Len(s) :
                      s[i] = ":" /\ \A j \in 1..(i - 1) : s[j] # ":"
         IN  Ok(<<SubSeq(s, 1, i - 1), SubSeq(s, i + 1, Len(s))>>)
    ELSE NoResult

(***************************************************************************)
(* (angle + 360) % 360 on a usize.  angle + 360 overflows when it exceeds  *)
(* usize::MAX: a panic with overflow checks; otherwise it wraps to         *)
(* k = angle + 360 - 2^bits, which is below 360, so that k % 360 = k and   *)
(* k is congruent to angle - 2^bits modulo 360.                            *)
(***************************************************************************)
\* mutant: the wrong constant, (angle + 90) % 360
normalize_angle_plus_90(checks, bits, angle) ==
    IF DigitsLeq(MulAdd(angle, 1, 90), UsizeMax(bits))
    THEN Ok((ModDigits(angle, 360) + 90) % 360)
    ELSE IF checks
         THEN Panic("attempt to add with overflow")
         ELSE Ok((ModDigits(angle, 360) + 90
                  - ((ModDigits(UsizeMax(bits), 360) + 1) % 360)) % 360)

normalize_angle(checks, bits, angle) ==
    IF DigitsLeq(MulAdd(angle, 1, 360), UsizeMax(bits))
    THEN Ok(ModDigits(angle, 360))
    ELSE IF checks
         THEN Panic("attempt to add with overflow")
         ELSE Ok((ModDigits(angle, 360) + 360
                  - ((ModDigits(UsizeMax(bits), 360) + 1) % 360)) % 360)

\* NamedPixelMapperType::from_str
from_str(checks, bits, s) ==
    LET sp == split_once(s)
    IN  IF sp.tag = "Ok"
        THEN LET command == sp.val[1]
                 param == sp.val[2]
             IN  IF command = MIRROR
                 THEN IF param \in {<<"H">>, <<"h">>} THEN Ok(Mirror(TRUE))
                      ELSE IF param \in {<<"V">>, <<"v">>} THEN Ok(Mirror(FALSE))
                      ELSE Err("Mirror parameter should be either 'V' or 'H'")
                 ELSE IF command = ROTATE
                 THEN LET p == parse_usize(bits, param)
                      IN  IF p.tag = "Ok"
                          THEN IF ModDigits(p.val, 90) # 0
                               THEN Err("Rotation needs to be a multiple of 90 degrees")
                               ELSE LET a == normalize_angle(checks, bits, p.val)
                                    IN  IF a.tag = "Ok" THEN Ok(Rotate(a.val)) ELSE a
                          ELSE Err("Rotation angle is missing or invalid")
                 ELSE Err("is not a valid Pixel mapping.")
        ELSE IF s = UMAPPER THEN Ok(UMapper)
        ELSE Err("is not a valid Pixel mapping.")

(***************************************************************************)
(* The mappers: the implementations of trait NamedPixelMapper.             *)
(***************************************************************************)
MirrorPixelMapper(horizontal) == [kind |-> "Mirror", horizontal |-> horizontal]
RotatePixelMapper(angle) == [kind |-> "Rotate", angle |-> angle]
UArrangeMapper(parallel) == [kind |-> "UArrange", parallel |-> parallel]
NoMapper == [kind |-> "None"]

\* mutant: the divisibility check is missing
new_with_parameters_no_even_check(chain, parallel) ==
    IF chain < 2
    THEN Panic("U-mapper: need at least '--chain_length 4' for useful folding")
    ELSE Ok(UArrangeMapper(parallel))

\* UArrangeMapper::new_with_parameters
new_with_parameters(chain, parallel) ==
    IF chain < 2
    THEN Panic("U-mapper: need at least '--chain_length 4' for useful folding")
    ELSE IF chain % 2 # 0
    THEN Panic("U-mapper: Chain (--chain_length) needs to be divisible by two")
    ELSE Ok(UArrangeMapper(parallel))

\* NamedPixelMapperType::create
create(self, chain, parallel) ==
    IF self.type = "Mirror" THEN Ok(MirrorPixelMapper(self.horizontal))
    ELSE IF self.type = "Rotate" THEN Ok(RotatePixelMapper(self.angle))
    ELSE new_with_parameters(chain, parallel)

(***************************************************************************)
(* The value of a usize expression: `steps` are the results of its         *)
(* unsigned subtractions in evaluation order, `value` the final result.    *)
(* A step below zero is an overflow: a panic with overflow checks, and     *)
(* without them the value wraps (kept as its negative residue).            *)
(***************************************************************************)
usize_expr(checks, steps, value) ==
    IF checks /\ \E i \in 1..Len(steps) : steps[i] < 0
    THEN Panic("attempt to subtract with overflow")
    ELSE Ok(value)

\* MirrorPixelMapper::get_size_mapping
Mirror_get_size_mapping(self, matrix_width, matrix_height) ==
    Ok(<<matrix_width, matrix_height>>)

\* mutant: the horizontal mirror reads y where it should read x
Mirror_map_visible_to_matrix_reads_y(checks, self, matrix_width, matrix_height, x, y) ==
    IF self.horizontal
    THEN usize_expr(checks, <<matrix_width - 1, matrix_width - 1 - y>>,
                    <<matrix_width - 1 - y, y>>)
    ELSE usize_expr(checks, <<matrix_height - 1, matrix_height - 1 - y>>,
                    <<x, matrix_height - 1 - y>>)

\* MirrorPixelMapper::map_visible_to_matrix
Mirror_map_visible_to_matrix(checks, self, matrix_width, matrix_height, x, y) ==
    IF self.horizontal
    THEN usize_expr(checks, <<matrix_width - 1, matrix_width - 1 - x>>,
                    <<matrix_width - 1 - x, y>>)
    ELSE usize_expr(checks, <<matrix_height - 1, matrix_height - 1 - y>>,
                    <<x, matrix_height - 1 - y>>)

\* mutant: the sizes are swapped unless the angle is 0
Rotate_get_size_mapping_mod_360(self, matrix_width, matrix_height) ==
    IF self.angle % 360 = 0
    THEN Ok(<<matrix_width, matrix_height>>)
    ELSE Ok(<<matrix_height, matrix_width>>)

\* RotatePixelMapper::get_size_mapping
Rotate_get_size_mapping(self, matrix_width, matrix_height) ==
    IF self.angle % 180 = 0
    THEN Ok(<<matrix_width, matrix_height>>)
    ELSE Ok(<<matrix_height, matrix_width>>)

\* mutant: the 90 degree case subtracts from the height
Rotate_map_visible_to_matrix_wrong_dim(checks, self, matrix_width, matrix_height, x, y) ==
    CASE self.angle = 0 -> Ok(<<x, y>>)
      [] self.angle = 90 ->
            usize_expr(checks, <<matrix_height - y, matrix_height - y - 1>>,
                       <<matrix_height - y - 1, x>>)
      [] self.angle = 180 ->
            usize_expr(checks, <<matrix_width - x, matrix_width - x - 1,
                                 matrix_height - y, matrix_height - y - 1>>,
                       <<matrix_width - x - 1, matrix_height - y - 1>>)
      [] self.angle = 270 ->
            usize_expr(checks, <<matrix_height - x, matrix_height - x - 1>>,
                       <<y, matrix_height - x - 1>>)
      [] OTHER -> Panic("unreachable")

\* RotatePixelMapper::map_visible_to_matrix
Rotate_map_visible_to_matrix(checks, self, matrix_width, matrix_height, x, y) ==
    CASE self.angle = 0 -> Ok(<<x, y>>)
      [] self.angle = 90 ->
            usize_expr(checks, <<matrix_width - y, matrix_width - y - 1>>,
                       <<matrix_width - y - 1, x>>)
      [] self.angle = 180 ->
            usize_expr(checks, <<matrix_width - x, matrix_width - x - 1,
                                 matrix_height - y, matrix_height - y - 1>>,
                       <<matrix_width - x - 1, matrix_height - y - 1>>)
      [] self.angle = 270 ->
            usize_expr(checks, <<matrix_height - x, matrix_height - x - 1>>,
                       <<y, matrix_height - x - 1>>)
      [] OTHER -> Panic("unreachable")

\* UArrangeMapper::get_size_mapping (the eprintln! is size_diagnostic)
UArrange_get_size_mapping(self, matrix_width, matrix_height) ==
    LET visible_width == (matrix_width \div 64) * 32
        visible_height == 2 * matrix_height
    IN  IF self.parallel = 0
        THEN Panic("attempt to calculate the remainder with a divisor of zero")
        ELSE Ok(<<visible_width, visible_height>>)

\* mutant: the folded-back half keeps the column instead of mirroring it
UArrange_map_visible_to_matrix_no_mirror(checks, self, matrix_width, matrix_height, x, y) ==
    IF self.parallel = 0 THEN Panic("attempt to divide by zero")
    ELSE
    LET panel_height == matrix_height \div self.parallel
        visible_width == (matrix_width \div 64) * 32
        slab_height == 2 * panel_height
    IN  IF slab_height = 0 THEN Panic("attempt to divide by zero")
        ELSE
        LET base_y == (y \div slab_height) * panel_height
            matrix_y == y % slab_height
        IN  IF matrix_y < panel_height
            THEN Ok(<<x + matrix_width \div 2, base_y + matrix_y>>)
            ELSE usize_expr(checks,
                            <<slab_height - y, slab_height - y - 1>>,
                            <<x, base_y + (slab_height - y - 1)>>)

\* UArrangeMapper::map_visible_to_matrix
UArrange_map_visible_to_matrix(checks, self, matrix_width, matrix_height, x, y) ==
    IF self.parallel = 0 THEN Panic("attempt to divide by zero")
    ELSE
    LET panel_height == matrix_height \div self.parallel
        visible_width == (matrix_width \div 64) * 32
        slab_height == 2 * panel_height
    IN  IF slab_height = 0 THEN Panic("attempt to divide by zero")
        ELSE
        LET base_y == (y \div slab_height) * panel_height
            matrix_y == y % slab_height
        IN  IF matrix_y < panel_height
            THEN Ok(<<x + matrix_width \div 2, base_y + matrix_y>>)
            ELSE usize_expr(checks,
                            <<visible_width - x, visible_width - x - 1,
                              slab_height - y, slab_height - y - 1>>,
                            <<visible_width - x - 1,
                              base_y + (slab_height - y - 1)>>)

(***************************************************************************)
(* Dispatch through Box<dyn NamedPixelMapper>.                             *)
(***************************************************************************)
get_size_mapping(self, matrix_width, matrix_height) ==
    CASE self.kind = "Mirror" ->
            Mirror_get_size_mapping(self, matrix_width, matrix_height)
      [] self.kind = "Rotate" ->
            Rotate_get_size_mapping(self, matrix_width, matrix_height)
      [] self.kind = "UArrange" ->
            UArrange_get_size_mapping(self, matrix_width, matrix_height)

\* whether get_size_mapping writes its diagnostic to stderr
size_diagnostic(self, matrix_width, matrix_height) ==
    /\ self.kind = "UArrange"
    /\ self.parallel # 0
    /\ matrix_height % self.parallel # 0

map_visible_to_matrix(checks, self, matrix_width, matrix_height, x, y) ==
    CASE self.kind = "Mirror" ->
            Mirror_map_visible_to_matrix(checks, self, matrix_width, matrix_height, x, y)
      [] self.kind = "Rotate" ->
            Rotate_map_visible_to_matrix(checks, self, matrix_width, matrix_height, x, y)
      [] self.kind = "UArrange" ->
            UArrange_map_visible_to_matrix(checks, self, matrix_width, matrix_height, x, y)

(***************************************************************************)
(* The inputs of the model.                                                *)
(***************************************************************************)
UsizeWidths == {32, 64}

\* ds - k for a small k <= ds
RECURSIVE SubSmall(_, _)
SubSmall(ds, k) ==
    IF ds = <<>> THEN <<>>
    ELSE LET d == ds[Len(ds)] - (k % 10)
             front == SubSeq(ds, 1, Len(ds) - 1)
         IN  IF d >= 0
             THEN SubSmall(front, k \div 10) \o <<d>>
             ELSE SubSmall(front, k \div 10 + 1) \o <<d + 10>>

CharsOf(ds) == [i \in 1..Len(ds) |-> DigitChars[ds[i] + 1]]

\* the largest multiple of 90 that a usize of `bits` bits holds
TopMultiple(bits) ==
    StripZeros(SubSmall(UsizeMax(bits), ModDigits(UsizeMax(bits), 90)))

BigAngles ==
    UNION {{ CharsOf(UsizeMax(b)),
             CharsOf(TopMultiple(b)),
             CharsOf(StripZeros(SubSmall(TopMultiple(b), 360))),
             CharsOf(MulAdd(TopMultiple(b), 1, 90)),
             CharsOf(MulAdd(UsizeMax(b), 1, 1)) \o <<"x">>,
             CharsOf(UsizeMax(b)) \o <<"x">> } : b \in UsizeWidths}

AngleParams ==
    {ToChars(45 * k) : k \in 0..MaxAngleSteps}
    \cup BigAngles
    \cup { <<"+", "9", "0">>, <<"-", "9", "0">>, <<"0", "9", "0">>,
           <<"a", "b", "c">>, <<"9", "0", " ">>, <<"9", "0", ":", "0">>,
           <<"+">>, <<"-">>, <<"9", "0", "H">> }

MirrorParams ==
    { <<"H">>, <<"h">>, <<"V">>, <<"v">>, <<"X">>, <<"H", "V">>, <<>>,
      <<"H", ":", "V">>, <<"h", "o", "r", "i", "z", "o", "n", "t", "a", "l">> }

Commands ==
    { MIRROR, ROTATE, UMAPPER, <<"m", "i", "r", "r", "o", "r">>,
      <<"R", "O", "T", "A", "T", "E">>, <<"F", "l", "i", "p">>, <<>> }

Tokens ==
    {c \o <<":">> \o p : c \in Commands, p \in MirrorParams \cup AngleParams}
    \cup { UMAPPER, MIRROR, ROTATE, <<>>,
           <<"u", "-", "m", "a", "p", "p", "e", "r">>,
           <<"U", "m", "a", "p", "p", "e", "r">>,
           <<"b", "o", "g", "u", "s">>,
           MIRROR \o <<"H">>, ROTATE \o <<"9", "0">> }

Widths == (1..MaxSmallDim) \cup {64 * k : k \in 1..MaxPanelPairs}
Heights == 1..MaxHeight

(***************************************************************************)
(* The session.                                                            *)
(***************************************************************************)
NoCall == [op |-> "none", arg |-> <<>>, ret |-> NoResult, diag |-> FALSE]

Init ==
    /\ overflow_checks \in BOOLEAN
    /\ usize_bits \in UsizeWidths
    /\ pc = "start"
    /\ desc = NoDesc
    /\ mapper = NoMapper
    /\ matrix = <<0, 0>>
    /\ visible = <<0, 0>>
    /\ call = NoCall

\* let d: NamedPixelMapperType = s.parse()
FromStr(s) ==
    /\ pc = "start"
    /\ LET r == from_str(overflow_checks, usize_bits, s)
       IN  /\ call' = [op |-> "from_str", arg |-> s, ret |-> r, diag |-> FALSE]
           /\ desc' = IF r.tag = "Ok" THEN r.val ELSE desc
           /\ pc' = CASE r.tag = "Ok" -> "parsed"
                      [] r.tag = "Err" -> "rejected"
                      [] r.tag = "Panic" -> "panicked"
    /\ UNCHANGED <<overflow_checks, usize_bits, mapper, matrix, visible>>

\* let m = d.create(chain, parallel)
Create(chain, parallel) ==
    /\ pc = "parsed"
    /\ LET r == create(desc, chain, parallel)
       IN  /\ call' = [op |-> "create", arg |-> <<chain, parallel>>, ret |-> r,
                       diag |-> FALSE]
           /\ mapper' = IF r.tag = "Ok" THEN r.val ELSE mapper
           /\ pc' = IF r.tag = "Ok" THEN "created" ELSE "panicked"
    /\ UNCHANGED <<overflow_checks, usize_bits, desc, matrix, visible>>

\* let [vw, vh] = m.get_size_mapping(w, h)
GetSizeMapping(w, h) ==
    /\ pc \in {"created", "sized"}
    /\ LET r == get_size_mapping(mapper, w, h)
       IN  /\ call' = [op |-> "get_size_mapping", arg |-> <<w, h>>, ret |-> r,
                       diag |-> size_diagnostic(mapper, w, h)]
           /\ matrix' = <<w, h>>
           /\ visible' = IF r.tag = "Ok" THEN r.val ELSE <<0, 0>>
           /\ pc' = IF r.tag = "Ok" THEN "sized" ELSE "panicked"
    /\ UNCHANGED <<overflow_checks, usize_bits, desc, mapper>>

\* m.map_visible_to_matrix(w, h, x, y), for a pixel of the visible canvas
MapVisibleToMatrix(x, y) ==
    /\ pc = "sized"
    /\ x < visible[1]
    /\ y < visible[2]
    /\ LET r == map_visible_to_matrix(overflow_checks, mapper,
                                      matrix[1], matrix[2], x, y)
       IN  /\ call' = [op |-> "map_visible_to_matrix", arg |-> <<x, y>>,
                       ret |-> r, diag |-> FALSE]
           /\ pc' = IF r.tag = "Ok" THEN "sized" ELSE "panicked"
    /\ UNCHANGED <<overflow_checks, usize_bits, desc, mapper, matrix, visible>>

\* the pixel after p in raster order (the canvas is translated row by row)
NextPixel(p) ==
    IF p[1] + 1 < visible[1] THEN <<p[1] + 1, p[2]>>
    ELSE IF p[2] + 1 < visible[2] THEN <<0, p[2] + 1>>
    ELSE <<0, 0>>

\* the translation of a canvas starts at any pixel
MapFirstPixel ==
    /\ call.op # "map_visible_to_matrix"
    /\ \E x \in 0..(visible[1] - 1), y \in 0..(visible[2] - 1) :
          MapVisibleToMatrix(x, y)

\* and goes on with the next pixel
MapNextPixel ==
    /\ call.op = "map_visible_to_matrix"
    /\ MapVisibleToMatrix(NextPixel(call.arg)[1], NextPixel(call.arg)[2])

Next ==
    \/ \E s \in Tokens : FromStr(s)
    \/ \E chain \in 0..MaxChain, parallel \in 0..MaxParallel :
          Create(chain, parallel)
    \/ \E w \in Widths, h \in Heights : GetSizeMapping(w, h)
    \/ MapFirstPixel
    \/ MapNextPixel

Spec == Init /\ [][Next]_vars

(***************************************************************************)
(* Helpers of the properties.                                              *)
(***************************************************************************)
InRange(p, w, h) == p[1] \in 0..(w - 1) /\ p[2] \in 0..(h - 1)

Rect(w, h) == (0..(w - 1)) \X (0..(h - 1))

Mapped == call.op = "map_visible_to_matrix"

Sized == call.op = "get_size_mapping"

Parsed == call.op = "from_str"

\* from_str returned a Rotate descriptor
AcceptedRotate ==
    Parsed /\ call.ret.tag = "Ok" /\ call.ret.val.type = "Rotate"

\* the digits of <n> in the accepted token "Rotate:<n>"
LiteralAngle == parse_usize(usize_bits, split_once(call.arg).val[2]).val

\* the digit sequence ds is the number n
IsNumber(ds, n) == StripZeros(ds) = ToDigits(n)

RightAngles == {0, 90, 180, 270}

\* s is "Rotate:<n>" with <n> an unsigned number that is a multiple of 90
IsRotation(s) ==
    /\ Len(s) > Len(ROTATE)
    /\ SubSeq(s, 1, Len(ROTATE) + 1) = ROTATE \o <<":">>
    /\ LET n == parse_usize(usize_bits, SubSeq(s, Len(ROTATE) + 2, Len(s)))
       IN  n.tag = "Ok" /\ ModDigits(n.val, 90) = 0

(***************************************************************************)
(* C1: the U-Fold mapping stays in bounds for every parallel count: with   *)
(* parallel >= 1, a matrix width that is a multiple of 64 and a matrix     *)
(* height divisible by parallel, every visible pixel maps, without         *)
(* overflow, to a pixel of the matrix.                                     *)
(* It fails: in the folded-back half the code subtracts the full y, not y  *)
(* % slab_height, from slab_height, which goes below zero in the second    *)
(* and later slabs.                                                        *)
(***************************************************************************)
C1_UFoldInBounds ==
    (/\ Mapped
     /\ mapper.kind = "UArrange"
     /\ mapper.parallel >= 1
     /\ matrix[1] % 64 = 0
     /\ matrix[2] % mapper.parallel = 0)
    => (/\ call.ret.tag = "Ok"
        /\ InRange(call.ret.val, matrix[1], matrix[2]))

(***************************************************************************)
(* C2: a session that parsed a "Rotate:<n>" token holds a descriptor       *)
(* Rotate(a) with a in {0, 90, 180, 270}, and no map_visible_to_matrix     *)
(* call of the mapper created from it reaches unreachable!().              *)
(* It fails: without overflow checks angle + 360 wraps for the largest     *)
(* multiples of 90 a usize holds, and 2^bits is no multiple of 90.         *)
(***************************************************************************)
C2_RotateNeverUnreachable ==
    (Mapped /\ mapper.kind = "Rotate")
    => (/\ desc = Rotate(mapper.angle)
        /\ desc.angle \in RightAngles
        /\ call.ret # Panic("unreachable"))

(***************************************************************************)
(* C3: from_str accepts exactly the grammar: Mirror(true) for "Mirror:H"   *)
(* and "Mirror:h", Mirror(false) for "Mirror:V" and "Mirror:v", UMapper    *)
(* for "U-mapper", a Rotate descriptor for "Rotate:<n>" exactly when <n>   *)
(* is an unsigned number (one that parse::<usize> reads) and a multiple of *)
(* 90, and an error for every other token.                                 *)
(* It fails with overflow checks: for the largest multiples of 90 from_str *)
(* panics in angle + 360 and returns neither a descriptor nor an error.    *)
(***************************************************************************)
C3_ParserAcceptsExactlyGrammar ==
    Parsed =>
        LET s == call.arg
            r == call.ret
        IN  CASE s \in {MIRROR \o <<":", "H">>, MIRROR \o <<":", "h">>} ->
                    r = Ok(Mirror(TRUE))
              [] s \in {MIRROR \o <<":", "V">>, MIRROR \o <<":", "v">>} ->
                    r = Ok(Mirror(FALSE))
              [] s = UMAPPER -> r = Ok(UMapper)
              [] IsRotation(s) -> r.tag = "Ok" /\ r.val.type = "Rotate"
              [] OTHER -> r.tag = "Err" /\ desc = NoDesc /\ pc = "rejected"

(***************************************************************************)
(* C4: create on a UMapper descriptor panics exactly when chain < 2 or     *)
(* chain is odd and otherwise returns a UArrangeMapper holding parallel    *)
(* unchanged; create on a Mirror or Rotate descriptor succeeds for every   *)
(* (chain, parallel).                                                      *)
(***************************************************************************)
C4_CreateOutcome ==
    call.op = "create" =>
        LET chain == call.arg[1]
            parallel == call.arg[2]
        IN  CASE desc.type = "UMapper" ->
                    IF chain < 2 \/ chain % 2 = 1
                    THEN call.ret.tag = "Panic" /\ pc = "panicked"
                         /\ mapper = NoMapper
                    ELSE call.ret = Ok(UArrangeMapper(parallel))
                         /\ mapper = UArrangeMapper(parallel) /\ pc = "created"
              [] desc.type = "Mirror" ->
                    call.ret = Ok(MirrorPixelMapper(desc.horizontal))
                    /\ mapper = MirrorPixelMapper(desc.horizontal)
                    /\ pc = "created"
              [] desc.type = "Rotate" ->
                    call.ret = Ok(RotatePixelMapper(desc.angle))
                    /\ mapper = RotatePixelMapper(desc.angle)
                    /\ pc = "created"

C4_Witness ==
    /\ call.op = "create"
    /\ desc = UMapper
    /\ call.arg = <<4, 3>>
    /\ mapper = UArrangeMapper(3)

(***************************************************************************)
(* C5: the mirror is an involution: the size mapping is the identity, and  *)
(* mapping the image of a visible pixel again gives the pixel back, for    *)
(* the horizontal and for the vertical mirror.                             *)
(***************************************************************************)
C5_MirrorInvolution ==
    (mapper.kind = "Mirror" /\ pc = "sized") =>
        /\ visible = matrix
        /\ Mapped =>
              /\ call.ret.tag = "Ok"
              /\ InRange(call.ret.val, matrix[1], matrix[2])
              /\ Mirror_map_visible_to_matrix(overflow_checks, mapper,
                      matrix[1], matrix[2], call.ret.val[1], call.ret.val[2])
                 = Ok(call.arg)

C5_Witness ==
    /\ Mapped
    /\ mapper = MirrorPixelMapper(TRUE)
    /\ matrix = <<2, 3>>
    /\ call.arg = <<0, 1>>
    /\ call.ret = Ok(<<1, 1>>)

(***************************************************************************)
(* C6: four chained Rotate(90) mappers are the identity.  The state's      *)
(* mapper is the last of the four: its matrix size s3 is the visible size  *)
(* of the third, and the physical matrix has the size s0.  The final       *)
(* visible size s4 is s0, and a final visible pixel mapped back through    *)
(* the four mappers, each with the matrix size of its stage, is the pixel  *)
(* itself, every intermediate coordinate being in range.  Rotate(0) alone  *)
(* is the identity for sizes and coordinates.                              *)
(***************************************************************************)
C6_FourRotationsIdentity ==
    /\ (Mapped /\ mapper = RotatePixelMapper(90)) =>
          LET R == RotatePixelMapper(90)
              s0 == <<matrix[2], matrix[1]>>
              s1 == Rotate_get_size_mapping(R, s0[1], s0[2]).val
              s2 == Rotate_get_size_mapping(R, s1[1], s1[2]).val
              s3 == Rotate_get_size_mapping(R, s2[1], s2[2]).val
              s4 == Rotate_get_size_mapping(R, s3[1], s3[2]).val
              p4 == call.ret
              p3 == Rotate_map_visible_to_matrix(overflow_checks, R,
                        s2[1], s2[2], p4.val[1], p4.val[2])
              p2 == Rotate_map_visible_to_matrix(overflow_checks, R,
                        s1[1], s1[2], p3.val[1], p3.val[2])
              p1 == Rotate_map_visible_to_matrix(overflow_checks, R,
                        s0[1], s0[2], p2.val[1], p2.val[2])
          IN  /\ s3 = matrix
              /\ s4 = visible
              /\ s4 = s0
              /\ p4.tag = "Ok" /\ InRange(p4.val, s3[1], s3[2])
              /\ p3.tag = "Ok" /\ InRange(p3.val, s2[1], s2[2])
              /\ p2.tag = "Ok" /\ InRange(p2.val, s1[1], s1[2])
              /\ p1.tag = "Ok" /\ InRange(p1.val, s0[1], s0[2])
              /\ p1.val = call.arg
    /\ (mapper = RotatePixelMapper(0) /\ pc = "sized") =>
          /\ visible = matrix
          /\ Mapped => call.ret = Ok(call.arg)

C6_Witness ==
    /\ Mapped
    /\ mapper = RotatePixelMapper(90)
    /\ matrix = <<2, 3>>
    /\ visible = <<3, 2>>
    /\ call.arg = <<2, 0>>
    /\ call.ret = Ok(<<1, 2>>)

(***************************************************************************)
(* C7 as stated: for every accepted token "Rotate:<n>" the stored angle is *)
(* n itself.  It fails: "Rotate:360" is stored as 0, "Rotate:450" as 90.   *)
(***************************************************************************)
C7_NormalizationIsNoOp ==
    AcceptedRotate => IsNumber(LiteralAngle, call.ret.val.angle)

(***************************************************************************)
(* C7 amended: for every accepted token "Rotate:<n>" the stored angle is   *)
(* below 360, and it is n itself exactly when n < 360.                     *)
(***************************************************************************)
C7_NormalizationOnlyBelow360 ==
    AcceptedRotate =>
        /\ call.ret.val.angle \in 0..359
        /\ DigitsLeq(LiteralAngle, ToDigits(359))
           <=> IsNumber(LiteralAngle, call.ret.val.angle)

C7_Witness ==
    /\ Parsed
    /\ call.arg = ROTATE \o <<":", "4", "5", "0">>
    /\ call.ret = Ok(Rotate(90))

(***************************************************************************)
(* C8: the chain [Mirror(horizontal), Rotate(90)] over a matrix (w, h) has *)
(* the final visible size (h, w), and a final visible pixel (x, y), mapped *)
(* through Rotate(90) and then through Mirror(horizontal), both with the   *)
(* matrix size (w, h), is (y, x), which is in range.  The reversed chain   *)
(* [Rotate(90), Mirror(horizontal)] maps it to (w - y - 1, h - 1 - x), so  *)
(* the two orders differ unless the pixel is the centre in both axes.      *)
(* The state's mapper is the Rotate(90) of the first chain.                *)
(***************************************************************************)
C8_ChainComposesInOrder ==
    (Mapped /\ mapper = RotatePixelMapper(90)) =>
        LET M == MirrorPixelMapper(TRUE)
            R == RotatePixelMapper(90)
            w == matrix[1]
            h == matrix[2]
            x == call.arg[1]
            y == call.arg[2]
            afterMirror == Mirror_get_size_mapping(M, w, h).val
            final == Rotate_get_size_mapping(R, afterMirror[1], afterMirror[2]).val
            back == Mirror_map_visible_to_matrix(overflow_checks, M, w, h,
                        call.ret.val[1], call.ret.val[2])
            afterRotate == Rotate_get_size_mapping(R, w, h).val
            finalRev == Mirror_get_size_mapping(M, afterRotate[1], afterRotate[2]).val
            midRev == Mirror_map_visible_to_matrix(overflow_checks, M,
                          afterRotate[1], afterRotate[2], x, y)
            backRev == Rotate_map_visible_to_matrix(overflow_checks, R, w, h,
                           midRev.val[1], midRev.val[2])
        IN  /\ final = <<h, w>>
            /\ final = visible
            /\ call.ret = Ok(<<w - y - 1, x>>)
            /\ back = Ok(<<w - 1 - (w - y - 1), x>>)
            /\ back = Ok(<<y, x>>)
            /\ InRange(back.val, w, h)
            /\ finalRev = <<h, w>>
            /\ midRev.tag = "Ok"
            /\ backRev = Ok(<<w - y - 1, h - 1 - x>>)
            /\ (backRev = back) <=> (2 * y + 1 = w /\ 2 * x + 1 = h)

C8_Witness ==
    /\ Mapped
    /\ mapper = RotatePixelMapper(90)
    /\ desc = Rotate(90)
    /\ matrix = <<2, 3>>
    /\ call.arg = <<2, 1>>
    /\ call.ret = Ok(<<0, 2>>)

(***************************************************************************)
(* C9: Mirror and Rotate are bijections: for each of Mirror(horizontal),   *)
(* Mirror(vertical), Rotate(0), Rotate(90), Rotate(180), Rotate(270) and   *)
(* every matrix (w, h), get_size_mapping is (w, h) for the mirrors and the *)
(* angles 0 and 180 and (h, w) for 90 and 270, and map_visible_to_matrix,  *)
(* restricted to the visible rectangle, never overflows, and its image is  *)
(* the whole matrix rectangle, which has as many pixels as the visible one *)
(* (so it is one-to-one and onto).                                         *)
(***************************************************************************)
C9_MirrorRotateBijective ==
    (/\ Sized
     /\ \/ mapper.kind = "Mirror"
        \/ mapper.kind = "Rotate" /\ mapper.angle \in RightAngles) =>
        LET w == matrix[1]
            h == matrix[2]
            image == {map_visible_to_matrix(overflow_checks, mapper, w, h,
                                            p[1], p[2]) :
                         p \in Rect(visible[1], visible[2])}
        IN  /\ visible = IF mapper.kind = "Rotate" /\ mapper.angle \in {90, 270}
                         THEN <<h, w>> ELSE <<w, h>>
            /\ \A r \in image : r.tag = "Ok"
            /\ {r.val : r \in image} = Rect(w, h)
            /\ Cardinality(Rect(visible[1], visible[2])) = Cardinality(Rect(w, h))

C9_Witness ==
    /\ Sized
    /\ mapper = RotatePixelMapper(270)
    /\ matrix = <<2, 3>>
    /\ visible = <<3, 2>>

(***************************************************************************)
(* C10: a single-chain U-Fold (parallel = 1) over a matrix whose width is  *)
(* a multiple of 64 has the visible size (w / 2, 2 * h); the visible rows  *)
(* y < h map to (x + w / 2, y), the rows y >= h to (visibleWidth - x - 1,  *)
(* 2 * h - y - 1); the first image is the right half of the matrix, the    *)
(* second the left half, so that no pixel is lost or duplicated.           *)
(***************************************************************************)
C10_SingleChainUFoldBijective ==
    (Sized /\ mapper = UArrangeMapper(1) /\ matrix[1] % 64 = 0) =>
        LET w == matrix[1]
            h == matrix[2]
            map(p) == map_visible_to_matrix(overflow_checks, mapper, w, h,
                                            p[1], p[2])
            top == {p \in Rect(visible[1], visible[2]) : p[2] < h}
            bottom == {p \in Rect(visible[1], visible[2]) : p[2] >= h}
        IN  /\ call.ret = Ok(<<w \div 2, 2 * h>>)
            /\ visible = <<w \div 2, 2 * h>>
            /\ ~call.diag
            /\ \A p \in top : map(p) = Ok(<<p[1] + w \div 2, p[2]>>)
            /\ \A p \in bottom :
                  map(p) = Ok(<<visible[1] - p[1] - 1, 2 * h - p[2] - 1>>)
            /\ {map(p).val : p \in top} = ((w \div 2)..(w - 1)) \X (0..(h - 1))
            /\ {map(p).val : p \in bottom} = (0..(w \div 2 - 1)) \X (0..(h - 1))
            /\ Cardinality(Rect(visible[1], visible[2])) = Cardinality(Rect(w, h))

C10_Witness ==
    /\ Sized
    /\ mapper = UArrangeMapper(1)
    /\ matrix = <<128, 3>>
    /\ visible = <<64, 6>>

=============================================================================
